---- MODULE Spec2Model ----
(***************************************************************************)
(* One-Night-Werewolf: the game engine of src/game/logic.py and the        *)
(* front-end steps of src/bot.py that drive one session.                   *)
(*                                                                         *)
(* A session is the GameState object: the ordered roster of Player         *)
(* records, the two center cards, the night-action order and its index,    *)
(* the phase, the executed identities and the winners.  Every engine       *)
(* function is an action on that state; what it returns is the operator    *)
(* of the same name ending in _returns (or _raises), evaluated in the      *)
(* state the call is made in.  A call that returns before assigning        *)
(* anything leaves the session unchanged.                                  *)
(*                                                                         *)
(* The front end runs its command handlers as coroutines on one event      *)
(* loop: a handler runs alone from one await to the next, and other        *)
(* handlers may run while it is suspended.  tasks is the bag of the        *)
(* handlers suspended at an await, each with the place it resumes at.      *)
(***************************************************************************)
EXTENDS Integers, Sequences, FiniteSets, Bags, TLC

VARIABLES players, center_cards, night_action_order, night_action_index,
          phase, executed_player_ids, winners, tasks, games, peer

\* The fields of the GameState object.
game == <<players, center_cards, night_action_order, night_action_index,
          phase, executed_player_ids, winners>>

\* What the front end holds besides the session: its suspended handlers,
\* the entry of the session's channel in the games map (bot.py:68), which is
\* the session itself ("THIS"), the session of a later /onj start ("NEWER")
\* or none ("NONE"), and the session of another channel.
front == <<tasks, games, peer>>

vars == <<players, center_cards, night_action_order, night_action_index,
          phase, executed_player_ids, winners, tasks, games, peer>>

(***************************************************************************)
(* Bounds of the exploration.                                              *)
(***************************************************************************)
\* Largest roster explored.
MaxPlayers == 3
\* Largest value night_action_index is driven to (the order has 3 entries).
MaxIndex == 4
\* Most /onj begin commands in flight at once.
MaxBegins == 2

(***************************************************************************)
(* Role & phase catalog and the Player record (game/models.py).            *)
(***************************************************************************)
\* Python's None where a Role is expected.
NoRole == "NONE"

Role == {"VILLAGER", "WEREWOLF", "SEER", "THIEF", "TANNER"}

GamePhase == <<"WAITING", "NIGHT", "DISCUSSION", "VOTING", "ENDED">>

\* Python's None where an identity is expected.
NoneId == 0

\* Identities that may join, and one that never does.
UserIds == 1 .. MaxPlayers

Stranger == MaxPlayers + 1

Callers == UserIds \cup {Stranger}

\* A NightAction: its kind, its optional target and its result text, the
\* text kept as its kind, the players it names and the roles it names.
NightAction(type, target, msg, names, roles) ==
    [action_type |-> type, target_player_id |-> target,
     result |-> [msg |-> msg, names |-> names, roles |-> roles]]

\* Player.night_action is None.
NoAction == NightAction("NONE", NoneId, "NONE", <<>>, <<>>)

NewPlayer(user_id) ==
    [user_id |-> user_id, initial_role |-> NoRole, current_role |-> NoRole,
     has_acted |-> FALSE, night_action |-> NoAction, vote_target_id |-> NoneId]

\* The session of another channel, as far as a direct message of one of its
\* players reaches it: that player, and the role group whose messages its
\* center cards, and the role group whose messages its night phase is
\* waiting for.
Peer(player, cards, listening) ==
    [player |-> player, center_cards |-> cards, listening |-> listening]

\* No other session.
NoPeer == Peer(NewPlayer(NoneId), <<>>, "NONE")

(***************************************************************************)
(* Roster helpers (GameState in game/models.py).                           *)
(***************************************************************************)
player_count == Len(players)

RosterIds == {players[i].user_id : i \in 1 .. Len(players)}

\* state.get_player(uid) is not None
InRoster(uid) == \E i \in 1 .. Len(players) : players[i].user_id = uid

\* Position of a roster member in the roster's iteration order.
IndexOf(uid) == CHOOSE i \in 1 .. Len(players) : players[i].user_id = uid

get_player(uid) == players[IndexOf(uid)]

SeqRange(s) == {s[i] : i \in 1 .. Len(s)}

\* The identities of the roster members, in roster order.
PlayerIds == [i \in 1 .. Len(players) |-> players[i].user_id]

\* GameState.get_players_by_initial_role, by identity and in roster order.
get_players_by_initial_role(role) ==
    SelectSeq(PlayerIds, LAMBDA uid : get_player(uid).initial_role = role)

(***************************************************************************)
(* Initial state: create_game followed by add_player(host), bot.py:137-138.*)
(***************************************************************************)
Init ==
    /\ players = <<NewPlayer(1)>>
    /\ center_cards = <<>>
    /\ night_action_order = <<>>
    /\ night_action_index = 0
    /\ phase = "WAITING"
    /\ executed_player_ids = <<>>
    /\ winners = <<>>
    /\ tasks = EmptyBag
    /\ games = "THIS"
    /\ peer = NoPeer

(***************************************************************************)
(* Roster population.                                                      *)
(***************************************************************************)
\* GameState.add_player: refuses an identity already in the roster.
add_player(user_id) ==
    /\ players' = IF InRoster(user_id) THEN players
                  ELSE Append(players, NewPlayer(user_id))
    /\ UNCHANGED <<center_cards, night_action_order, night_action_index,
                   phase, executed_player_ids, winners>>

(***************************************************************************)
(* Role Dealer: setup_game, logic.py:34-72.                                *)
(***************************************************************************)
NIGHT_ACTION_ORDER == <<"WEREWOLF", "SEER", "THIEF">>

\* The decks a caller supplies: the first k cards of a fixed composition,
\* for every k from 1 to two more than the largest valid deck.
BaseDeck ==
    <<"WEREWOLF", "SEER", "THIEF", "WEREWOLF", "VILLAGER", "VILLAGER",
      "TANNER", "VILLAGER", "VILLAGER">>

Decks == {SubSeq(BaseDeck, 1, k) : k \in 1 .. MaxPlayers + 4}

\* Faulty variant: only a deck that is too short is a mismatch.
DeckSizeMismatch_TooShortOnly(role_list) == Len(role_list) < player_count + 2

\* logic.py:48: the deck must hold one card per player and two for the center.
DeckSizeMismatch(role_list) == Len(role_list) # player_count + 2

\* logic.py:49: raise ValueError
setup_game_raises(role_list) == DeckSizeMismatch(role_list)

\* random.shuffle of a copy of the deck: every rearrangement of it.
Shuffles(role_list) ==
    {[i \in 1 .. Len(role_list) |-> role_list[p[i]]] :
        p \in Permutations(1 .. Len(role_list))}

\* Faulty variant: the current role is taken one card further in the deck.
DealtPlayers_NextCard(shuffled) ==
    [i \in 1 .. Len(players) |->
        [players[i] EXCEPT !.initial_role = shuffled[i],
                           !.current_role = shuffled[i + 1]]]

\* logic.py:58-62: the i-th roster member gets the i-th shuffled card, as
\* both initial and current role.
DealtPlayers(shuffled) ==
    [i \in 1 .. Len(players) |->
        [players[i] EXCEPT !.initial_role = shuffled[i],
                           !.current_role = shuffled[i]]]

\* Faulty variant: the center takes the first two cards, which the players
\* were dealt as well.
DealtCenter_FirstTwo(shuffled) == SubSeq(shuffled, 1, 2)

\* logic.py:65: shuffled_roles[player_count:]
DealtCenter(shuffled) == SubSeq(shuffled, player_count + 1, Len(shuffled))

setup_game(role_list) ==
    IF setup_game_raises(role_list)
    THEN UNCHANGED game
    ELSE \E shuffled \in Shuffles(role_list) :
         /\ players' = DealtPlayers(shuffled)
         /\ center_cards' = DealtCenter(shuffled)
         /\ night_action_order' = NIGHT_ACTION_ORDER
         /\ night_action_index' = 0
         /\ phase' = "NIGHT"
         /\ UNCHANGED <<executed_player_ids, winners>>

(***************************************************************************)
(* Night sequencing, logic.py:75-100.                                      *)
(***************************************************************************)
NightRoleAt(order, index) ==
    IF index >= Len(order) THEN NoRole ELSE order[index + 1]

get_current_night_role == NightRoleAt(night_action_order, night_action_index)

is_night_phase_complete == night_action_index >= Len(night_action_order)

\* Faulty variant: the index wraps round the order.
NextNightIndex_Wraps(index) == (index + 1) % 3

\* logic.py:94: state.night_action_index += 1
NextNightIndex(index) == index + 1

\* logic.py:95: the role at the incremented index
advance_night_phase_returns ==
    NightRoleAt(night_action_order, NextNightIndex(night_action_index))

advance_night_phase ==
    /\ night_action_index' = NextNightIndex(night_action_index)
    /\ UNCHANGED <<players, center_cards, night_action_order, phase,
                   executed_player_ids, winners>>

(***************************************************************************)
(* Werewolf reveal, logic.py:107-133.                                      *)
(***************************************************************************)
\* Faulty variant: the werewolves are the players who hold the card now.
Werewolves_ByCurrentRole ==
    SelectSeq(PlayerIds, LAMBDA uid : get_player(uid).current_role = "WEREWOLF")

\* logic.py:117: who takes part in the reveal.
Werewolves == get_players_by_initial_role("WEREWOLF")

\* logic.py:123: the werewolves other than `wolf`, in roster order.
OtherWolves(werewolves, wolf) == SelectSeq(werewolves, LAMBDA w : w # wolf)

\* logic.py:119-124, 133: the dictionary returned.
process_werewolf_night_returns ==
    [wolf \in SeqRange(Werewolves) |-> OtherWolves(Werewolves, wolf)]

\* logic.py:127-130: the action recorded for one werewolf.
WerewolfCheck(other_wolves) ==
    NightAction("WEREWOLF_CHECK", NoneId,
                IF other_wolves # <<>> THEN "OTHER_WEREWOLVES"
                                       ELSE "SOLE_WEREWOLF",
                other_wolves, <<>>)

process_werewolf_night ==
    /\ players' =
          [i \in 1 .. Len(players) |->
              IF players[i].user_id \in SeqRange(Werewolves)
              THEN [players[i] EXCEPT
                       !.night_action =
                           WerewolfCheck(OtherWolves(Werewolves,
                                                     players[i].user_id)),
                       !.has_acted = TRUE]
              ELSE players[i]]
    /\ UNCHANGED <<center_cards, night_action_order, night_action_index,
                   phase, executed_player_ids, winners>>

(***************************************************************************)
(* Seer inspection, logic.py:140-209, and the seer timeout, bot.py:747-750.*)
(***************************************************************************)
\* logic.py:162, 198
SeerEligible(seer) == seer.initial_role = "SEER"

\* logic.py:165
SeerSelfTarget(seer_id, target_id) == seer_id = target_id

\* logic.py:156-166: none of the three early returns is taken.
SeerPlayerAccepted(seer_id, target_id) ==
    /\ InRoster(seer_id)
    /\ InRoster(target_id)
    /\ SeerEligible(get_player(seer_id))
    /\ ~SeerSelfTarget(seer_id, target_id)

\* Faulty variant: the seer is shown the card the target was dealt.
SeenRole_Dealt(target) == target.initial_role

\* logic.py:172, 176: what the seer is shown of the target.
SeenRole(target) == target.current_role

process_seer_action_player_returns(seer_id, target_id) ==
    IF SeerPlayerAccepted(seer_id, target_id)
    THEN SeenRole(get_player(target_id))
    ELSE NoRole

process_seer_action_player(seer_id, target_id) ==
    IF ~SeerPlayerAccepted(seer_id, target_id)
    THEN UNCHANGED game
    ELSE /\ players' =
              [players EXCEPT ![IndexOf(seer_id)] =
                  [@ EXCEPT !.night_action =
                                NightAction("SEER_PLAYER", target_id, "ROLE_OF",
                                            <<target_id>>,
                                            <<SeenRole(get_player(target_id))>>),
                            !.has_acted = TRUE]]
         /\ UNCHANGED <<center_cards, night_action_order, night_action_index,
                        phase, executed_player_ids, winners>>

\* logic.py:193-199
SeerCenterAccepted(seer_id) ==
    /\ InRoster(seer_id)
    /\ SeerEligible(get_player(seer_id))

\* logic.py:202: state.center_cards.copy()
SeenCenter == center_cards

\* None is the empty list here: a dealt center is never empty.
process_seer_action_center_returns(seer_id) ==
    IF SeerCenterAccepted(seer_id) THEN SeenCenter ELSE <<>>

process_seer_action_center(seer_id) ==
    IF ~SeerCenterAccepted(seer_id)
    THEN UNCHANGED game
    ELSE /\ players' =
              [players EXCEPT ![IndexOf(seer_id)] =
                  [@ EXCEPT !.night_action =
                                NightAction("SEER_CENTER", NoneId, "CENTER",
                                            <<>>, SubSeq(SeenCenter, 1, 2)),
                            !.has_acted = TRUE]]
         /\ UNCHANGED <<center_cards, night_action_order, night_action_index,
                        phase, executed_player_ids, winners>>

\* wait_for_seer_actions, after the wait loop: a pending seer who has not
\* acted is marked as having acted, with no recorded action.
seer_timeout(user_id) ==
    /\ InRoster(user_id)
    /\ get_player(user_id).initial_role = "SEER"
    /\ ~get_player(user_id).has_acted
    /\ players' = [players EXCEPT ![IndexOf(user_id)].has_acted = TRUE]
    /\ UNCHANGED <<center_cards, night_action_order, night_action_index,
                   phase, executed_player_ids, winners>>

(***************************************************************************)
(* Thief swap, logic.py:249-305.                                           *)
(***************************************************************************)
\* Faulty variant: whoever holds the thief card now may swap.
ThiefEligible_ByCurrentRole(thief) == thief.current_role = "THIEF"

\* logic.py:270
ThiefEligible(thief) == thief.initial_role = "THIEF"

\* Faulty variant: the thief may name itself.
ThiefSelfTarget_Allowed(thief_id, target_id) == FALSE

\* logic.py:287
ThiefSelfTarget(thief_id, target_id) == thief_id = target_id

\* logic.py:265-271: the thief exists and was dealt the Thief card.
ThiefAccepted(thief_id) ==
    /\ InRoster(thief_id)
    /\ ThiefEligible(get_player(thief_id))

\* logic.py:274: target_id is None
ThiefSkips(thief_id, target_id) ==
    /\ ThiefAccepted(thief_id)
    /\ target_id = NoneId

\* logic.py:282-288: a swap goes through.
ThiefSwaps(thief_id, target_id) ==
    /\ ThiefAccepted(thief_id)
    /\ target_id # NoneId
    /\ InRoster(target_id)
    /\ ~ThiefSelfTarget(thief_id, target_id)

\* logic.py:292, 294: new_thief_role = target.current_role
\* Faulty variant: the thief keeps the card it had.
NewThiefRole_Keeps(thief, target) == thief.current_role

NewThiefRole(thief, target) == target.current_role

\* Faulty variant: the target keeps its card.
NewTargetRole_Keeps(thief, target) == target.current_role

\* logic.py:291, 295: the target receives old_thief_role
NewTargetRole(thief, target) == thief.current_role

process_thief_action_returns(thief_id, target_id) ==
    IF ThiefSwaps(thief_id, target_id)
    THEN NewThiefRole(get_player(thief_id), get_player(target_id))
    ELSE NoRole

process_thief_action(thief_id, target_id) ==
    IF ThiefSkips(thief_id, target_id)
    THEN /\ players' =
              [players EXCEPT ![IndexOf(thief_id)] =
                  [@ EXCEPT !.night_action =
                                NightAction("THIEF_SKIP", NoneId, "NOTHING",
                                            <<>>, <<>>),
                            !.has_acted = TRUE]]
         /\ UNCHANGED <<center_cards, night_action_order, night_action_index,
                        phase, executed_player_ids, winners>>
    ELSE IF ~ThiefSwaps(thief_id, target_id)
    THEN UNCHANGED game
    ELSE LET thief == get_player(thief_id)
             target == get_player(target_id)
         IN /\ players' =
                 [i \in 1 .. Len(players) |->
                     IF players[i].user_id = thief_id
                     THEN [players[i] EXCEPT
                              !.current_role = NewThiefRole(thief, target),
                              !.night_action =
                                  NightAction("THIEF_SWAP", target_id, "SWAPPED",
                                              <<target_id>>,
                                              <<NewThiefRole(thief, target)>>),
                              !.has_acted = TRUE]
                     ELSE IF players[i].user_id = target_id
                     THEN [players[i] EXCEPT
                              !.current_role = NewTargetRole(thief, target)]
                     ELSE players[i]]
            /\ UNCHANGED <<center_cards, night_action_order,
                           night_action_index, phase, executed_player_ids,
                           winners>>

(***************************************************************************)
(* Vote registration: register_vote, logic.py:312-337.                     *)
(***************************************************************************)
\* The vote target that stands for "execute nobody" (bot.py:499).
PEACE_VILLAGE == -1

register_vote_returns_Revote(voter_id, target_id) ==
    /\ InRoster(voter_id)
    /\ InRoster(target_id)
    /\ voter_id # target_id

register_vote_returns(voter_id, target_id) ==
    /\ InRoster(voter_id)
    /\ InRoster(target_id)
    /\ voter_id # target_id
    /\ get_player(voter_id).vote_target_id = NoneId

register_vote(voter_id, target_id) ==
    IF ~register_vote_returns(voter_id, target_id)
    THEN UNCHANGED game
    ELSE /\ players' = [players EXCEPT ![IndexOf(voter_id)].vote_target_id =
                                           target_id]
         /\ UNCHANGED <<center_cards, night_action_order, night_action_index,
                        phase, executed_player_ids, winners>>

\* Faulty variant: one vote is taken for all of them.
all_voted_SomeVoted ==
    \E i \in 1 .. Len(players) : players[i].vote_target_id # NoneId

\* GameState.all_voted: every player has a vote target.
all_voted == \A i \in 1 .. Len(players) : players[i].vote_target_id # NoneId

\* /onj skip, bot.py:476-499: the checks of the handler and its assignment
\* of the sentinel, which does not go through register_vote.
skip_vote(voter_id) ==
    /\ phase = "VOTING"
    /\ InRoster(voter_id)
    /\ get_player(voter_id).vote_target_id = NoneId
    /\ players' = [players EXCEPT ![IndexOf(voter_id)].vote_target_id =
                                      PEACE_VILLAGE]
    /\ UNCHANGED <<center_cards, night_action_order, night_action_index,
                   phase, executed_player_ids, winners>>

(***************************************************************************)
(* Vote tally: calculate_votes, logic.py:340-358.  The dictionary is a     *)
(* function on its keys; VoteKeysInOrder is its insertion order.           *)
(***************************************************************************)
\* logic.py:348-349: one key per roster member, then the sentinel.
VoteKeysInOrder == PlayerIds \o <<PEACE_VILLAGE>>

NoVotes == [key \in SeqRange(VoteKeysInOrder) |-> 0]

\* logic.py:352-356: a recorded vote is counted under its key when the
\* dictionary has the key.
CountsVote_RosterOnly(vote_counts, vote_target_id) ==
    /\ vote_target_id # NoneId
    /\ InRoster(vote_target_id)

CountsVote(vote_counts, vote_target_id) ==
    /\ vote_target_id # NoneId
    /\ \/ vote_target_id \in DOMAIN vote_counts
       \/ vote_target_id = PEACE_VILLAGE

\* logic.py:351-356: the loop over the players, one vote at a time.
calculate_votes ==
    LET tally[i \in 0 .. Len(players)] ==
            IF i = 0 THEN NoVotes
            ELSE IF CountsVote(tally[i - 1], players[i].vote_target_id)
                 THEN [tally[i - 1] EXCEPT ![players[i].vote_target_id] = @ + 1]
                 ELSE tally[i - 1]
    IN tally[Len(players)]

(***************************************************************************)
(* Execution: determine_execution, logic.py:361-394.                       *)
(***************************************************************************)
\* logic.py:376: max(vote_counts.values())
MaxVotes(vote_counts) ==
    CHOOSE m \in {vote_counts[key] : key \in DOMAIN vote_counts} :
        \A key \in DOMAIN vote_counts : vote_counts[key] <= m

\* logic.py:382: the keys that hold the most votes, in dictionary order.
MaxVoted(vote_counts) ==
    SelectSeq(VoteKeysInOrder,
              LAMBDA key : vote_counts[key] = MaxVotes(vote_counts))

\* logic.py:378-386: the branches that return [] and assign nothing.
ExecutionUndecided_NoTie(vote_counts) ==
    MaxVotes(vote_counts) = 0

ExecutionUndecided(vote_counts) ==
    \/ MaxVotes(vote_counts) = 0
    \/ Len(MaxVoted(vote_counts)) > 1

\* logic.py:389: the sentinel alone holds the most votes.
PeaceWins(vote_counts) == MaxVoted(vote_counts)[1] = PEACE_VILLAGE

determine_execution_returns ==
    IF ExecutionUndecided(calculate_votes) THEN <<>>
    ELSE IF PeaceWins(calculate_votes) THEN <<>>
    ELSE MaxVoted(calculate_votes)

\* logic.py:390, 393: what the call leaves in executed_player_ids.
ExecutedAfter(vote_counts) ==
    IF ExecutionUndecided(vote_counts) THEN executed_player_ids
    ELSE IF PeaceWins(vote_counts) THEN <<>>
    ELSE MaxVoted(vote_counts)

determine_execution ==
    /\ executed_player_ids' = ExecutedAfter(calculate_votes)
    /\ UNCHANGED <<players, center_cards, night_action_order,
                   night_action_index, phase, winners>>

(***************************************************************************)
(* Win evaluation: determine_winner, logic.py:401-452.  WinnersOf is the   *)
(* function's body on a roster and a list of executed identities.          *)
(***************************************************************************)
Team == {"VILLAGE", "WEREWOLF", "TANNER"}

\* Faulty variant: the roles the executed players were dealt.
ExecutedRoles_Dealt(ps, executed_ids) ==
    LET roles[k \in 0 .. Len(executed_ids)] ==
            IF k = 0 THEN <<>>
            ELSE LET found == {i \in 1 .. Len(ps) :
                                  ps[i].user_id = executed_ids[k]}
                 IN IF found = {} THEN roles[k - 1]
                    ELSE Append(roles[k - 1],
                                ps[CHOOSE i \in found : TRUE].initial_role)
    IN roles[Len(executed_ids)]

\* logic.py:421-425: the current roles of the executed identities that are
\* roster members, in the order of the list.
ExecutedRoles(ps, executed_ids) ==
    LET roles[k \in 0 .. Len(executed_ids)] ==
            IF k = 0 THEN <<>>
            ELSE LET found == {i \in 1 .. Len(ps) :
                                  ps[i].user_id = executed_ids[k]}
                 IN IF found = {} THEN roles[k - 1]
                    ELSE Append(roles[k - 1],
                                ps[CHOOSE i \in found : TRUE].current_role)
    IN roles[Len(executed_ids)]

\* logic.py:435: get_players_by_role(Role.WEREWOLF, use_current=True)
WerewolvesInGame(ps) ==
    SelectSeq(ps, LAMBDA p : p.current_role = "WEREWOLF")

\* Faulty variant: without the case of nobody executed.
WinnersOf_NoPeaceRule(ps, executed_ids) ==
    LET executed_roles == SeqRange(ExecutedRoles(ps, executed_ids))
    IN IF "TANNER" \in executed_roles THEN <<"TANNER">>
       ELSE IF "WEREWOLF" \in executed_roles THEN <<"VILLAGE">>
       ELSE <<"WEREWOLF">>

WinnersOf(ps, executed_ids) ==
    LET executed_roles == SeqRange(ExecutedRoles(ps, executed_ids))
    IN IF "TANNER" \in executed_roles THEN <<"TANNER">>
       ELSE IF executed_ids = <<>>
            THEN IF WerewolvesInGame(ps) # <<>> THEN <<"WEREWOLF">>
                 ELSE <<"VILLAGE">>
       ELSE IF "WEREWOLF" \in executed_roles THEN <<"VILLAGE">>
       ELSE <<"WEREWOLF">>

determine_winner_returns == WinnersOf(players, executed_player_ids)

\* Faulty variant: with nobody executed the field gets the village, whatever
\* is returned.
determine_winner_Mismatch ==
    /\ winners' = IF executed_player_ids = <<>> THEN <<"VILLAGE">>
                  ELSE determine_winner_returns
    /\ UNCHANGED <<players, center_cards, night_action_order,
                   night_action_index, phase, executed_player_ids>>

determine_winner ==
    /\ winners' = determine_winner_returns
    /\ UNCHANGED <<players, center_cards, night_action_order,
                   night_action_index, phase, executed_player_ids>>

(***************************************************************************)
(* Front-end phase steps, bot.py:883-903.                                  *)
(***************************************************************************)
\* Faulty variant: the phase is left as it is.
start_day_phase_Stays == UNCHANGED game

start_day_phase ==
    /\ phase' = "DISCUSSION"
    /\ UNCHANGED <<players, center_cards, night_action_order,
                   night_action_index, executed_player_ids, winners>>

start_voting_phase ==
    /\ phase' = "VOTING"
    /\ UNCHANGED <<players, center_cards, night_action_order,
                   night_action_index, executed_player_ids, winners>>

(***************************************************************************)
(* The callers of the engine.  The roster is filled while the session      *)
(* waits and the front end deals out of the waiting phase (bot.py:274,     *)
(* 328).  From then on a caller may submit any engine call with any        *)
(* identities, in any order: the engine functions check neither the phase  *)
(* nor whose turn it is.                                                   *)
(***************************************************************************)
Join ==
    /\ phase = "WAITING"
    /\ player_count < MaxPlayers
    /\ add_player(player_count + 1)
    /\ UNCHANGED front

Deal ==
    /\ phase = "WAITING"
    /\ \E role_list \in Decks : setup_game(role_list)
    /\ UNCHANGED front

BadDeal ==
    /\ phase # "WAITING"
    /\ \E role_list \in Decks :
          /\ setup_game_raises(role_list)
          /\ setup_game(role_list)
    /\ UNCHANGED front

AdvanceNight ==
    /\ phase # "WAITING"
    /\ night_action_index < MaxIndex
    /\ advance_night_phase
    /\ UNCHANGED front

WerewolfNight == process_werewolf_night /\ UNCHANGED front

SeerPlayer ==
    /\ \E seer_id \in Callers, target_id \in Callers :
          process_seer_action_player(seer_id, target_id)
    /\ UNCHANGED front

SeerCenter ==
    /\ \E seer_id \in Callers : process_seer_action_center(seer_id)
    /\ UNCHANGED front

SeerTimeout ==
    /\ \E user_id \in UserIds : seer_timeout(user_id)
    /\ UNCHANGED front

ThiefAction ==
    /\ \E thief_id \in Callers, target_id \in Callers \cup {NoneId} :
          process_thief_action(thief_id, target_id)
    /\ UNCHANGED front

\* start_night_phase reaches start_day_phase after its three role groups
\* have each advanced the index once (bot.py:591-600).
StartDay ==
    /\ phase = "NIGHT"
    /\ is_night_phase_complete
    /\ start_day_phase
    /\ UNCHANGED front

(***************************************************************************)
(* Spec: the engine under any caller: deal, night sequencing, night calls  *)
(* and the opening of the discussion, freely interleaved.                  *)
(***************************************************************************)
Next ==
    \/ Join
    \/ Deal
    \/ BadDeal
    \/ AdvanceNight
    \/ WerewolfNight
    \/ SeerPlayer
    \/ SeerCenter
    \/ SeerTimeout
    \/ ThiefAction
    \/ StartDay

Spec == Init /\ [][Next]_vars

(***************************************************************************)
(* DealSpec: the dealer and the night sequencing alone.                    *)
(***************************************************************************)
DealNext ==
    \/ Join
    \/ Deal
    \/ BadDeal
    \/ AdvanceNight
    \/ StartDay

DealSpec == Init /\ [][DealNext]_vars

(***************************************************************************)
(* NightSpec: the dealer and the night calls alone.  The night calls read  *)
(* and write neither the index nor the phase, which stay as dealt.         *)
(***************************************************************************)
NightNext ==
    \/ Join
    \/ Deal
    \/ WerewolfNight
    \/ SeerPlayer
    \/ SeerCenter
    \/ SeerTimeout
    \/ ThiefAction

NightSpec == Init /\ [][NightNext]_vars

(***************************************************************************)
(* SwapSpec: the dealer and the calls of the seer and of the thief alone:  *)
(* the calls whose acceptance depends on the caller's role.                *)
(***************************************************************************)
SwapNext ==
    \/ Join
    \/ Deal
    \/ SeerPlayer
    \/ SeerCenter
    \/ ThiefAction

SwapSpec == Init /\ [][SwapNext]_vars

(***************************************************************************)
(* The front end's handlers of one session, bot.py.                        *)
(***************************************************************************)
\* Fewest players /onj begin accepts (config.py).
MIN_PLAYERS == 3

\* The deck /onj begin takes for a roster of n (config.py, bot.py:303).
ROLE_CONFIG(n) == SubSeq(BaseDeck, 1, n + 2)

\* A suspended handler: where it resumes and the deck it holds.
Task(pc, role_list) == [pc |-> pc, role_list |-> role_list]

BeginPcs ==
    {"begin_send", "werewolves", "werewolves_sent", "seers", "thieves",
     "day", "discussion"}

Started(task) == tasks (+) SetToBag({task})

Without(task) == tasks (-) SetToBag({task})

Moved(task, pc) == Without(task) (+) SetToBag({Task(pc, task.role_list)})

Suspended == BagToSet(tasks)

BeginsInFlight ==
    LET F[pcs \in SUBSET BeginPcs] ==
            IF pcs = {} THEN 0
            ELSE LET pc == CHOOSE x \in pcs : TRUE
                     here == {t \in Suspended : t.pc = pc}
                     count == IF here = {} THEN 0
                              ELSE CopiesIn(CHOOSE t \in here : TRUE, tasks)
                 IN count + F[pcs \ {pc}]
    IN F[BeginPcs]

\* /onj begin up to its first await (bot.py:263-325): the phase, the roster
\* size and the deck are read here; the deal follows the await.
begin ==
    /\ UNCHANGED <<games, peer>>
    /\ phase = "WAITING"
    /\ player_count >= MIN_PLAYERS
    /\ player_count <= MaxPlayers
    /\ BeginsInFlight < MaxBegins
    /\ tasks' = Started(Task("begin_send", ROLE_CONFIG(player_count)))
    /\ UNCHANGED game

\* /onj begin resumed (bot.py:328): the deal; a deck of the wrong size
\* raises and ends the handler.
begin_deal(task) ==
    /\ UNCHANGED <<games, peer>>
    /\ task.pc = "begin_send"
    /\ setup_game(task.role_list)
    /\ tasks' = IF setup_game_raises(task.role_list)
                THEN Without(task) ELSE Moved(task, "werewolves")

\* process_werewolves up to its messages (bot.py:603-606).
process_werewolves(task) ==
    /\ UNCHANGED <<games, peer>>
    /\ task.pc = "werewolves"
    /\ process_werewolf_night
    /\ tasks' = Moved(task, "werewolves_sent")

\* The end of process_werewolves, process_seers and process_thieves
\* (bot.py:624, 632, 668, 764, 795): each advances the night once.
\* Faulty variant: the thieves are waited for before the seers.
AfterRoleGroup_ThievesFirst(pc) ==
    IF pc = "werewolves_sent" THEN "thieves"
    ELSE IF pc = "thieves" THEN "seers" ELSE "day"

AfterRoleGroup(pc) ==
    IF pc = "werewolves_sent" THEN "seers"
    ELSE IF pc = "seers" THEN "thieves" ELSE "day"

end_role_group(task) ==
    /\ UNCHANGED <<games, peer>>
    /\ task.pc \in {"werewolves_sent", "seers", "thieves"}
    /\ advance_night_phase
    /\ tasks' = Moved(task, AfterRoleGroup(task.pc))

\* start_day_phase up to its sleep (bot.py:883-895).
begin_day(task) ==
    /\ UNCHANGED <<games, peer>>
    /\ task.pc = "day"
    /\ start_day_phase
    /\ tasks' = Moved(task, "discussion")

\* start_voting_phase after the sleep (bot.py:898-915); the handler ends.
begin_voting(task) ==
    /\ UNCHANGED <<games, peer>>
    /\ task.pc = "discussion"
    /\ start_voting_phase
    /\ tasks' = Without(task)

\* /onj vote up to its reply (bot.py:383-459).
vote(voter_id, target_id) ==
    /\ UNCHANGED <<games, peer>>
    /\ phase = "VOTING"
    /\ InRoster(voter_id)
    /\ get_player(voter_id).vote_target_id = NoneId
    /\ InRoster(target_id)
    /\ voter_id # target_id
    /\ register_vote_returns(voter_id, target_id)
    /\ register_vote(voter_id, target_id)
    /\ tasks' = Started(Task("vote_reply", <<>>))

\* /onj skip up to its reply (bot.py:465-504).
skip(voter_id) ==
    /\ UNCHANGED <<games, peer>>
    /\ skip_vote(voter_id)
    /\ tasks' = Started(Task("vote_reply", <<>>))

\* Faulty variant: the ended phase is not looked at.
end_voting_phase_returns_early_Never == FALSE

\* end_voting_phase up to its first message (bot.py:918-941).
end_voting_phase_returns_early == phase = "ENDED"

end_voting_phase ==
    IF end_voting_phase_returns_early
    THEN UNCHANGED game
    ELSE /\ phase' = "ENDED"
         /\ UNCHANGED <<players, center_cards, night_action_order,
                        night_action_index, executed_player_ids, winners>>

\* /onj vote and /onj skip after the reply (bot.py:461-463, 506-508): the
\* results are announced once every player has voted.
vote_reply(task) ==
    /\ UNCHANGED <<games, peer>>
    /\ task.pc = "vote_reply"
    /\ IF all_voted
       THEN /\ end_voting_phase
            /\ tasks' = IF end_voting_phase_returns_early
                        THEN Without(task) ELSE Moved(task, "results")
       ELSE /\ UNCHANGED game
            /\ tasks' = Without(task)

BeginDeal == \E task \in Suspended : begin_deal(task)

ProcessWerewolves == \E task \in Suspended : process_werewolves(task)

EndRoleGroup == \E task \in Suspended : end_role_group(task)

BeginDay == \E task \in Suspended : begin_day(task)

BeginVoting == \E task \in Suspended : begin_voting(task)

Vote ==
    \E voter_id \in Callers, target_id \in Callers :
        vote(voter_id, target_id)

Skip == \E voter_id \in Callers : skip(voter_id)

VoteReply == \E task \in Suspended : vote_reply(task)

(***************************************************************************)
(* PhaseSpec: the handlers that assign the phase, interleaved at their     *)
(* awaits.  The seer's and the thief's messages assign no phase and are    *)
(* left to NightSpec.                                                      *)
(***************************************************************************)
PhaseNext ==
    \/ Join
    \/ begin
    \/ BeginDeal
    \/ ProcessWerewolves
    \/ EndRoleGroup
    \/ BeginDay
    \/ BeginVoting
    \/ Vote
    \/ Skip
    \/ VoteReply

PhaseSpec == Init /\ [][PhaseNext]_vars

(***************************************************************************)
(* VoteSpec: the voting of one game.  The vote functions read no role, so  *)
(* the deck dealt holds villagers only; the night passes without night     *)
(* calls.  Votes arrive through register_vote with any identities, the     *)
(* sentinel included, and through /onj skip; determine_execution may be    *)
(* called at any time once the voting is open.                             *)
(***************************************************************************)
VillagerDeck(n) == [i \in 1 .. n + 2 |-> "VILLAGER"]

DealVillagers ==
    /\ phase = "WAITING"
    /\ setup_game(VillagerDeck(player_count))
    /\ UNCHANGED front

\* One role group of the night is over (bot.py:624, 668, 795).
NightStep ==
    /\ phase = "NIGHT"
    /\ ~is_night_phase_complete
    /\ advance_night_phase
    /\ UNCHANGED front

\* The discussion time is over (bot.py:895-898).
StartVoting ==
    /\ phase = "DISCUSSION"
    /\ start_voting_phase
    /\ UNCHANGED front

RegisterVote ==
    /\ phase = "VOTING"
    /\ \E voter_id \in Callers, target_id \in Callers \cup {PEACE_VILLAGE} :
          register_vote(voter_id, target_id)
    /\ UNCHANGED front

SkipVote ==
    /\ \E voter_id \in Callers : skip_vote(voter_id)
    /\ UNCHANGED front

\* The handler of the last vote closes the voting (bot.py:462-463, 507-508).
EndVoting ==
    /\ phase = "VOTING"
    /\ all_voted
    /\ end_voting_phase
    /\ UNCHANGED front

DetermineExecution ==
    /\ phase \in {"VOTING", "ENDED"}
    /\ determine_execution
    /\ UNCHANGED front

VoteNext ==
    \/ Join
    \/ DealVillagers
    \/ NightStep
    \/ StartDay
    \/ StartVoting
    \/ RegisterVote
    \/ SkipVote
    \/ EndVoting
    \/ DetermineExecution

VoteSpec == Init /\ [][VoteNext]_vars

(***************************************************************************)
(* WinSpec: a whole game up to its result.  The deck holds the Tanner and  *)
(* both Werewolf cards for every roster size, the Thief moves in its turn  *)
(* of the night, the votes come in during VOTING and, once the voting is   *)
(* closed, the engine decides the execution and the winners.               *)
(***************************************************************************)
WinCards ==
    <<"WEREWOLF", "TANNER", "THIEF", "WEREWOLF", "VILLAGER", "VILLAGER">>

WinDeck(n) == SubSeq(WinCards, 1, n + 2)

DealToWin ==
    /\ phase = "WAITING"
    /\ setup_game(WinDeck(player_count))
    /\ UNCHANGED front

\* wait_for_thief_actions, bot.py:798-872: a Thief who has not acted skips
\* or names another player, while the night is at the Thief's turn.
ThiefTurn ==
    /\ phase = "NIGHT"
    /\ get_current_night_role = "THIEF"
    /\ \E i \in 1 .. Len(players) :
          /\ players[i].initial_role = "THIEF"
          /\ ~players[i].has_acted
          /\ \E target_id \in (RosterIds \ {players[i].user_id}) \cup {NoneId} :
                process_thief_action(players[i].user_id, target_id)
    /\ UNCHANGED front

\* end_voting_phase, bot.py:946 and 952; the model also lets either call
\* come again, or the winners be asked for before the execution is decided.
ClosedExecution ==
    /\ phase = "ENDED"
    /\ determine_execution
    /\ UNCHANGED front

\* /onj vote, bot.py:383-453: a vote register_vote takes.
CastVote ==
    /\ phase = "VOTING"
    /\ \E voter_id \in RosterIds, target_id \in RosterIds :
          /\ register_vote_returns(voter_id, target_id)
          /\ register_vote(voter_id, target_id)
    /\ UNCHANGED front

DetermineWinner ==
    /\ phase = "ENDED"
    /\ determine_winner
    /\ UNCHANGED front

WinNext ==
    \/ Join
    \/ DealToWin
    \/ ThiefTurn
    \/ NightStep
    \/ StartDay
    \/ StartVoting
    \/ CastVote
    \/ SkipVote
    \/ EndVoting
    \/ ClosedExecution
    \/ DetermineWinner

WinSpec == Init /\ [][WinNext]_vars

(***************************************************************************)
(* RosterSpec: the roster commands around /onj begin.  Players join and    *)
(* leave the waiting session while begin handlers are suspended between    *)
(* the choice of the deck and the deal.                                    *)
(***************************************************************************)
\* The host is the user of /onj start, the first roster member
\* (bot.py:137-138).
host_id == 1

\* GameState.remove_player: the roster without that identity.
remove_player(user_id) ==
    /\ players' = SelectSeq(players, LAMBDA p : p.user_id # user_id)
    /\ UNCHANGED <<center_cards, night_action_order, night_action_index,
                   phase, executed_player_ids, winners>>

\* end_game, bot.py:87-90: the channel's entry is deleted, whichever session
\* it holds.
end_game == games' = "NONE"

\* /onj join, bot.py:148-184.
join(user_id) ==
    /\ games = "THIS"
    /\ phase = "WAITING"
    /\ player_count < MaxPlayers
    /\ add_player(user_id)
    /\ UNCHANGED front

\* /onj leave, bot.py:186-223: the host's leaving ends the game.
leave(user_id) ==
    /\ games = "THIS"
    /\ phase = "WAITING"
    /\ InRoster(user_id)
    /\ remove_player(user_id)
    /\ IF user_id = host_id THEN end_game ELSE UNCHANGED games
    /\ UNCHANGED <<tasks, peer>>

JoinAs == \E user_id \in UserIds : join(user_id)

Leave == \E user_id \in UserIds : leave(user_id)

\* /onj begin by the host of the registered session (bot.py:272-286).
HostBegins ==
    /\ games = "THIS"
    /\ InRoster(host_id)
    /\ begin

RosterNext ==
    \/ JoinAs
    \/ Leave
    \/ HostBegins
    \/ BeginDeal

RosterSpec == Init /\ [][RosterNext]_vars

(***************************************************************************)
(* RunSpec: one run of the front end's night phase, bot.py:586-876, after  *)
(* a single /onj begin.  The seer's and the thief's direct messages are    *)
(* taken while the run waits for them; each wait ends by its timeout or    *)
(* with nobody left to wait for.  The day follows, and the voting, closed  *)
(* by abstentions.                                                         *)
(***************************************************************************)
\* process_seers, bot.py:629, and process_thieves, bot.py:761
Seers == get_players_by_initial_role("SEER")

Thieves == get_players_by_initial_role("THIEF")

\* The filter of both waits, bot.py:674-682 and 801-809: a member of the
\* role group who has not acted.
PassesCheck(group, user_id) ==
    /\ user_id \in SeqRange(group)
    /\ InRoster(user_id)
    /\ ~get_player(user_id).has_acted

\* wait_for_seer_actions, bot.py:693-741: "!seer center" and "!seer player
\* <name>" with the name of another roster member.
seer_message(task, seer_id, target_id) ==
    /\ task.pc = "seers"
    /\ PassesCheck(Seers, seer_id)
    /\ IF target_id = NoneId
       THEN process_seer_action_center(seer_id)
       ELSE /\ InRoster(target_id)
            /\ target_id # seer_id
            /\ process_seer_action_player(seer_id, target_id)
    /\ UNCHANGED front

\* Faulty variant: the seers still waited for are left unmarked.
SeerTimeouts_Unmarked == players

\* bot.py:747-750: the seers still waited for are marked.
SeerTimeouts ==
    [i \in 1 .. Len(players) |->
        IF players[i].user_id \in SeqRange(Seers) /\ ~players[i].has_acted
        THEN [players[i] EXCEPT !.has_acted = TRUE]
        ELSE players[i]]

\* The end of the wait loop, bot.py:687-695, and the marks after it.
close_seers(task) ==
    /\ task.pc = "seers"
    /\ players' = SeerTimeouts
    /\ UNCHANGED <<center_cards, night_action_order, night_action_index,
                   phase, executed_player_ids, winners>>
    /\ tasks' = Moved(task, "seers_closed")
    /\ UNCHANGED <<games, peer>>

\* wait_for_thief_actions, bot.py:820-863: "!thief skip" and "!thief <name>"
\* with the name of another roster member.
thief_message(task, thief_id, target_id) ==
    /\ task.pc = "thieves"
    /\ PassesCheck(Thieves, thief_id)
    /\ target_id # NoneId => InRoster(target_id) /\ target_id # thief_id
    /\ process_thief_action(thief_id, target_id)
    /\ UNCHANGED front

\* bot.py:866-870: process_thief_action(game, thief.user_id, target_id=None)
\* for the thieves still waited for.
ThiefTimeouts ==
    [i \in 1 .. Len(players) |->
        IF players[i].user_id \in SeqRange(Thieves) /\ ~players[i].has_acted
        THEN [players[i] EXCEPT
                 !.night_action =
                     NightAction("THIEF_SKIP", NoneId, "NOTHING", <<>>, <<>>),
                 !.has_acted = TRUE]
        ELSE players[i]]

close_thieves(task) ==
    /\ task.pc = "thieves"
    /\ players' = ThiefTimeouts
    /\ UNCHANGED <<center_cards, night_action_order, night_action_index,
                   phase, executed_player_ids, winners>>
    /\ tasks' = Moved(task, "thieves_closed")
    /\ UNCHANGED <<games, peer>>

\* bot.py:668 and 795: the night advances after the wait.
end_wait(task) ==
    /\ task.pc \in {"seers_closed", "thieves_closed"}
    /\ advance_night_phase
    /\ tasks' = Moved(task, AfterRoleGroup(IF task.pc = "seers_closed"
                                           THEN "seers" ELSE "thieves"))
    /\ UNCHANGED <<games, peer>>

\* /onj begin with no other begin in flight.
BeginOnce ==
    /\ tasks = EmptyBag
    /\ begin

EndWerewolves ==
    \E task \in Suspended :
        task.pc = "werewolves_sent" /\ end_role_group(task)

SeerMessage ==
    \E task \in Suspended, seer_id \in UserIds,
       target_id \in UserIds \cup {NoneId} :
        seer_message(task, seer_id, target_id)

CloseSeers == \E task \in Suspended : close_seers(task)

ThiefMessage ==
    \E task \in Suspended, thief_id \in UserIds,
       target_id \in UserIds \cup {NoneId} :
        thief_message(task, thief_id, target_id)

CloseThieves == \E task \in Suspended : close_thieves(task)

EndWait == \E task \in Suspended : end_wait(task)

RunNext ==
    \/ Join
    \/ BeginOnce
    \/ BeginDeal
    \/ ProcessWerewolves
    \/ EndWerewolves
    \/ SeerMessage
    \/ CloseSeers
    \/ ThiefMessage
    \/ CloseThieves
    \/ EndWait
    \/ BeginDay
    \/ BeginVoting
    \/ SkipVote
    \/ EndVoting

RunSpec == Init /\ [][RunNext]_vars

\* Every await of the run returns: the replies and messages are sent, the
\* waits are answered or time out, the discussion time passes.
RunProgress ==
    /\ WF_vars(BeginDeal)
    /\ WF_vars(ProcessWerewolves)
    /\ WF_vars(EndWerewolves)
    /\ WF_vars(CloseSeers)
    /\ WF_vars(CloseThieves)
    /\ WF_vars(EndWait)
    /\ WF_vars(BeginDay)
    /\ WF_vars(BeginVoting)

RunLive == RunSpec /\ RunProgress

(***************************************************************************)
(* EndSpec: the end of a game.  The votes come in through /onj vote and    *)
(* /onj skip, whose handlers suspend at their reply; the handler that      *)
(* finds the voting complete runs end_voting_phase, which suspends at each *)
(* of its messages; /onj start may be handled in between.                  *)
(***************************************************************************)
ResultPcs == {"results", "executed", "winner"}

\* end_voting_phase after its first message, bot.py:946-949.
announce_execution(task) ==
    /\ task.pc = "results"
    /\ determine_execution
    /\ tasks' = Moved(task, "executed")
    /\ UNCHANGED <<games, peer>>

\* bot.py:952-960
announce_winner(task) ==
    /\ task.pc = "executed"
    /\ determine_winner
    /\ tasks' = Moved(task, "winner")
    /\ UNCHANGED <<games, peer>>

\* bot.py:963-969: end_game(game.channel_id) and the last message.
finish_game(task) ==
    /\ task.pc = "winner"
    /\ end_game
    /\ tasks' = Without(task)
    /\ UNCHANGED <<game, peer>>

\* /onj start, bot.py:118-146: refused while the channel's session has not
\* ended; otherwise create_game puts a new session in the channel's entry.
start ==
    /\ \/ games = "NONE"
       \/ games = "THIS" /\ phase = "ENDED"
    /\ games' = "NEWER"
    /\ UNCHANGED <<game, tasks, peer>>

AnnounceExecution == \E task \in Suspended : announce_execution(task)

AnnounceWinner == \E task \in Suspended : announce_winner(task)

FinishGame == \E task \in Suspended : finish_game(task)

EndNext ==
    \/ Join
    \/ DealVillagers
    \/ NightStep
    \/ StartDay
    \/ StartVoting
    \/ Vote
    \/ Skip
    \/ VoteReply
    \/ AnnounceExecution
    \/ AnnounceWinner
    \/ FinishGame
    \/ start

EndSpec == Init /\ [][EndNext]_vars

(***************************************************************************)
(* DmSpec: the night of the session while another channel's session is in  *)
(* its own night.  A user may join games in several channels; the night    *)
(* waits of every session listen to the direct messages of the bot, and    *)
(* bot.wait_for hands a message to every waiting listener whose check      *)
(* accepts it.                                                             *)
(***************************************************************************)
Contents == {"!seer center", "!thief skip"}

GroupOf(content) == IF content = "!seer center" THEN "seers" ELSE "thieves"

RoleOf(content) == IF content = "!seer center" THEN "SEER" ELSE "THIEF"

PeerCenters == {<<"WEREWOLF", "VILLAGER">>, <<"VILLAGER", "VILLAGER">>}

\* The check of the session's wait, bot.py:674-682 and 801-809, while a
\* night run is in that wait.
ListensHere(content, user_id) ==
    /\ \E task \in Suspended : task.pc = GroupOf(content)
    /\ PassesCheck(get_players_by_initial_role(RoleOf(content)), user_id)

\* The same check in the other channel's session.
ListensThere(content, user_id) ==
    /\ peer.listening = GroupOf(content)
    /\ peer.player.user_id = user_id
    /\ peer.player.initial_role = RoleOf(content)
    /\ ~peer.player.has_acted

\* process_seer_action(view_center=True) and process_thief_action(None) on
\* the other session's player.
PeerActs(content) ==
    [peer EXCEPT
        !.player =
            [@ EXCEPT
                !.night_action =
                    IF content = "!seer center"
                    THEN NightAction("SEER_CENTER", NoneId, "CENTER", <<>>,
                                     peer.center_cards)
                    ELSE NightAction("THIEF_SKIP", NoneId, "NOTHING",
                                     <<>>, <<>>),
                !.has_acted = TRUE]]

\* One direct message of a user to the bot: every wait whose check accepts
\* it handles it (bot.py:693-710, 819-833).
direct_message(user_id, content) ==
    /\ ListensHere(content, user_id) \/ ListensThere(content, user_id)
    /\ IF ListensHere(content, user_id)
       THEN IF content = "!seer center"
            THEN process_seer_action_center(user_id)
            ELSE process_thief_action(user_id, NoneId)
       ELSE UNCHANGED game
    /\ peer' = IF ListensThere(content, user_id)
               THEN PeerActs(content)
               ELSE peer
    /\ UNCHANGED <<tasks, games>>

\* The other session deals the user a Seer or Thief card (setup_game).
peer_deal(user_id, role, cards) ==
    /\ peer = NoPeer
    /\ peer' = Peer([NewPlayer(user_id) EXCEPT !.initial_role = role,
                                             !.current_role = role],
                    cards, "NONE")
    /\ UNCHANGED <<game, tasks, games>>

\* The other session's night reaches the wait of the user's role group
\* (bot.py:666, 793).
peer_listen ==
    /\ peer # NoPeer
    /\ peer.listening = "NONE"
    /\ peer' = [peer EXCEPT !.listening =
                   IF peer.player.initial_role = "SEER"
                   THEN "seers" ELSE "thieves"]
    /\ UNCHANGED <<game, tasks, games>>

\* The other session's wait ends (bot.py:747-750, 866-870).
peer_close ==
    /\ peer.listening \in {"seers", "thieves"}
    /\ peer' = [peer EXCEPT
                   !.listening = "CLOSED",
                   !.player =
                       IF peer.player.has_acted
                       THEN @
                       ELSE [@ EXCEPT
                                !.has_acted = TRUE,
                                !.night_action =
                                    IF peer.player.initial_role = "THIEF"
                                    THEN NightAction("THIEF_SKIP", NoneId,
                                                     "NOTHING", <<>>, <<>>)
                                    ELSE @]]
    /\ UNCHANGED <<game, tasks, games>>

DirectMessage ==
    \E user_id \in UserIds, content \in Contents :
        direct_message(user_id, content)

PeerDeal ==
    \E user_id \in UserIds, role \in {"SEER", "THIEF"},
       cards \in PeerCenters :
        peer_deal(user_id, role, cards)

DmNext ==
    \/ Join
    \/ BeginOnce
    \/ BeginDeal
    \/ ProcessWerewolves
    \/ EndWerewolves
    \/ DirectMessage
    \/ CloseSeers
    \/ CloseThieves
    \/ EndWait
    \/ PeerDeal
    \/ peer_listen
    \/ peer_close

DmSpec == Init /\ [][DmNext]_vars

(***************************************************************************)
(* GameSpec: one whole game.  The run of RunSpec up to the voting, votes   *)
(* for players, and after the last vote the resolution of the execution    *)
(* and of the winners.                                                     *)
(***************************************************************************)
GameNext ==
    \/ Join
    \/ BeginOnce
    \/ BeginDeal
    \/ ProcessWerewolves
    \/ EndWerewolves
    \/ SeerMessage
    \/ CloseSeers
    \/ ThiefMessage
    \/ CloseThieves
    \/ EndWait
    \/ BeginDay
    \/ BeginVoting
    \/ CastVote
    \/ EndVoting
    \/ ClosedExecution
    \/ DetermineWinner

GameSpec == Init /\ [][GameNext]_vars

(***************************************************************************)
(* Vocabulary of the properties.                                           *)
(***************************************************************************)
\* The bag (multiset) of the elements of a sequence.
BagOfSeq(s) ==
    [x \in SeqRange(s) |-> Cardinality({i \in 1 .. Len(s) : s[i] = x})]

InitialRolesOf(ps) == [i \in 1 .. Len(ps) |-> ps[i].initial_role]

CurrentRolesOf(ps) == [i \in 1 .. Len(ps) |-> ps[i].current_role]

\* The role pending after k advances of a freshly dealt session.
ExpectedNightRole(k) ==
    IF k = 0 THEN "WEREWOLF"
    ELSE IF k = 1 THEN "SEER"
    ELSE IF k = 2 THEN "THIEF"
    ELSE NoRole

(***************************************************************************)
(* C1.  setup_game called with a deck whose length differs from            *)
(* player_count + 2 raises, and the call leaves the roster (every player's *)
(* initial and current role), the center cards, the night-action order and *)
(* index and the phase exactly as they were.                               *)
(***************************************************************************)
C1_RaisesOnMismatch ==
    \A role_list \in Decks :
        Len(role_list) # player_count + 2 => setup_game_raises(role_list)

C1_MismatchChangesNothing ==
    \A role_list \in Decks :
        (Len(role_list) # player_count + 2 /\ setup_game(role_list))
            => UNCHANGED game

C1_DeckSizeMismatch ==
    [] C1_RaisesOnMismatch /\ [][C1_MismatchChangesNothing]_vars

\* A dealt session whose index has moved, offered a deck one card short.
C1_Witness ==
    /\ phase = "NIGHT"
    /\ night_action_index = 2
    /\ player_count = 3
    /\ \E role_list \in Decks :
          Len(role_list) = player_count + 1 /\ setup_game_raises(role_list)

(***************************************************************************)
(* C2.  After a successful setup_game, whatever the deck and the shuffle:  *)
(* the players' initial roles together with the center cards are the deck  *)
(* as a multiset, there are exactly two center cards, and every player's   *)
(* initial role is their current role.                                     *)
(***************************************************************************)
C2_Dealt(role_list) ==
    /\ BagOfSeq(InitialRolesOf(players') \o center_cards') = BagOfSeq(role_list)
    /\ Len(center_cards') = 2
    /\ \A i \in 1 .. Len(players') :
          players'[i].initial_role = players'[i].current_role
    /\ Len(players') = Len(players)

C2_DealIsThePermutedDeck ==
    [][\A role_list \in Decks :
          (~setup_game_raises(role_list) /\ setup_game(role_list))
              => C2_Dealt(role_list)]_vars

\* A full roster just dealt: two werewolves among the three players.
C2_Witness ==
    /\ phase = "NIGHT"
    /\ player_count = 3
    /\ night_action_index = 0
    /\ Cardinality({i \in 1 .. 3 : players[i].initial_role = "WEREWOLF"}) = 2
    /\ center_cards = <<"SEER", "VILLAGER">>

(***************************************************************************)
(* C4.  Right after setup_game the pending night role is Werewolf; the     *)
(* successive advance_night_phase calls return Seer, Thief, None; from     *)
(* then on is_night_phase_complete holds and every further call keeps      *)
(* returning None.                                                         *)
(***************************************************************************)
C4_PendingRoleByIndex ==
    phase # "WAITING" =>
        /\ get_current_night_role = ExpectedNightRole(night_action_index)
        /\ advance_night_phase_returns =
               ExpectedNightRole(night_action_index + 1)
        /\ is_night_phase_complete <=> night_action_index >= 3
        /\ is_night_phase_complete => get_current_night_role = NoRole

C4_Steps ==
    /\ (\E role_list \in Decks :
           ~setup_game_raises(role_list) /\ setup_game(role_list))
          => night_action_index' = 0
    /\ advance_night_phase
          => /\ night_action_index' = night_action_index + 1
             /\ get_current_night_role' = advance_night_phase_returns
    /\ night_action_index' # night_action_index
          => \/ advance_night_phase
             \/ phase = "WAITING"

C4_NightOrder == [] C4_PendingRoleByIndex /\ [][C4_Steps]_vars

\* One advance past the end of the order.
C4_Witness ==
    /\ phase = "NIGHT"
    /\ night_action_index = 4
    /\ get_current_night_role = NoRole

(***************************************************************************)
(* C5.  process_werewolf_night, with N players dealt the Werewolf card:    *)
(* the dictionary returned has exactly those N players as keys; each       *)
(* werewolf's list has N-1 entries, never holds the werewolf itself and    *)
(* holds every other one; for N = 1 the action recorded is the             *)
(* sole-werewolf one; for N = 0 no player's night_action or has_acted      *)
(* changes.  The dictionary depends on initial roles only: no step that    *)
(* keeps the initial roles (a thief swap in particular) changes it.        *)
(***************************************************************************)
InitialWerewolves ==
    {players[i].user_id : i \in {j \in 1 .. Len(players) :
                                    players[j].initial_role = "WEREWOLF"}}

C5_Returned ==
    /\ DOMAIN process_werewolf_night_returns = InitialWerewolves
    /\ \A wolf \in InitialWerewolves :
          LET others == process_werewolf_night_returns[wolf]
          IN /\ Len(others) = Cardinality(InitialWerewolves) - 1
             /\ SeqRange(others) = InitialWerewolves \ {wolf}

C5_Recorded ==
    process_werewolf_night =>
        /\ Len(players') = Len(players)
        /\ \A i \in 1 .. Len(players) :
              IF players[i].user_id \in InitialWerewolves
              THEN /\ players'[i].has_acted
                   /\ players'[i].night_action.action_type = "WEREWOLF_CHECK"
                   /\ players'[i].night_action.result.names =
                          process_werewolf_night_returns[players[i].user_id]
                   /\ players'[i].night_action.result.msg = "SOLE_WEREWOLF"
                          <=> Cardinality(InitialWerewolves) = 1
                   /\ players'[i].current_role = players[i].current_role
                   /\ players'[i].initial_role = players[i].initial_role
              ELSE players'[i] = players[i]
        /\ InitialWerewolves = {} => UNCHANGED game

C5_InitialRolesOnly ==
    InitialRolesOf(players') = InitialRolesOf(players)
        => process_werewolf_night_returns' = process_werewolf_night_returns

C5_WerewolfReveal ==
    [] C5_Returned
    /\ [][UNCHANGED vars \/ (C5_Recorded /\ C5_InitialRolesOnly)]_vars

\* Two werewolves revealed to each other after the thief took the card of
\* one of them.
C5_Witness ==
    /\ Cardinality(InitialWerewolves) = 2
    /\ \A i \in 1 .. Len(players) :
          players[i].initial_role = "WEREWOLF" =>
              /\ players[i].night_action.action_type = "WEREWOLF_CHECK"
              /\ Len(players[i].night_action.result.names) = 1
    /\ \E i \in 1 .. Len(players) :
          /\ players[i].initial_role = "WEREWOLF"
          /\ players[i].current_role = "THIEF"

\* A single werewolf among the players, told so.
C5_WitnessSole ==
    \E i \in 1 .. Len(players) :
        /\ InitialWerewolves = {players[i].user_id}
        /\ players[i].night_action.result.msg = "SOLE_WEREWOLF"

(***************************************************************************)
(* C6.  An accepted seer inspection of a player returns that player's      *)
(* current role at the moment of the call (the swapped role after a swap,  *)
(* not the initial one); an accepted center inspection returns the two     *)
(* center cards in their stored order.  Neither changes any player's       *)
(* current role or the center cards; each sets the seer's has_acted.       *)
(***************************************************************************)
C6_Returned ==
    /\ \A seer_id \in Callers, target_id \in Callers :
          SeerPlayerAccepted(seer_id, target_id) =>
              process_seer_action_player_returns(seer_id, target_id) =
                  get_player(target_id).current_role
    /\ \A seer_id \in Callers :
          SeerCenterAccepted(seer_id) =>
              /\ process_seer_action_center_returns(seer_id) = center_cards
              /\ Len(process_seer_action_center_returns(seer_id)) = 2

C6_Effect ==
    /\ \A seer_id \in Callers, target_id \in Callers :
          (SeerPlayerAccepted(seer_id, target_id)
             /\ process_seer_action_player(seer_id, target_id))
          => /\ CurrentRolesOf(players') = CurrentRolesOf(players)
             /\ center_cards' = center_cards
             /\ players'[IndexOf(seer_id)].has_acted
             /\ players'[IndexOf(seer_id)].night_action.result.roles =
                    <<get_player(target_id).current_role>>
    /\ \A seer_id \in Callers :
          (SeerCenterAccepted(seer_id) /\ process_seer_action_center(seer_id))
          => /\ CurrentRolesOf(players') = CurrentRolesOf(players)
             /\ center_cards' = center_cards
             /\ players'[IndexOf(seer_id)].has_acted

C6_SeerInspection ==
    [] C6_Returned /\ [][UNCHANGED vars \/ C6_Effect]_vars

\* A seer who inspected a player after that player's card was swapped, and
\* was shown the card the player holds, not the one dealt.
C6_Witness ==
    \E i \in 1 .. Len(players) :
        /\ players[i].night_action.action_type = "SEER_PLAYER"
        /\ players[i].has_acted
        /\ LET target == get_player(players[i].night_action.target_player_id)
           IN /\ players[i].night_action.result.roles = <<target.current_role>>
              /\ target.current_role # target.initial_role

(***************************************************************************)
(* C7.  An accepted thief swap of thief A with target B leaves A with B's  *)
(* former current role and B with A's, changes no other player, no center  *)
(* card and no initial role, and sets A.has_acted.  A thief skip sets      *)
(* has_acted and changes no current role.                                  *)
(***************************************************************************)
C7_Swap(thief_id, target_id) ==
    LET a == IndexOf(thief_id)
        b == IndexOf(target_id)
    IN /\ Len(players') = Len(players)
       /\ players'[a].current_role = players[b].current_role
       /\ players'[b].current_role = players[a].current_role
       /\ players'[a].has_acted
       /\ players'[b] = [players[b] EXCEPT
                            !.current_role = players[a].current_role]
       /\ \A i \in 1 .. Len(players) : i \notin {a, b} => players'[i] = players[i]
       /\ InitialRolesOf(players') = InitialRolesOf(players)
       /\ center_cards' = center_cards

C7_Skip(thief_id) ==
    /\ players'[IndexOf(thief_id)].has_acted
    /\ CurrentRolesOf(players') = CurrentRolesOf(players)
    /\ InitialRolesOf(players') = InitialRolesOf(players)
    /\ center_cards' = center_cards

C7_Effect ==
    /\ \A thief_id \in Callers, target_id \in Callers :
          (ThiefSwaps(thief_id, target_id)
             /\ process_thief_action(thief_id, target_id))
          => C7_Swap(thief_id, target_id)
    /\ \A thief_id \in Callers :
          (ThiefSkips(thief_id, NoneId)
             /\ process_thief_action(thief_id, NoneId))
          => C7_Skip(thief_id)

C7_ThiefSwap == [][UNCHANGED vars \/ C7_Effect]_vars

\* A thief who swapped with a werewolf in a roster of three.
C7_Witness ==
    /\ player_count = 3
    /\ \E i, j \in 1 .. Len(players) :
          /\ players[i].initial_role = "THIEF"
          /\ players[i].night_action.action_type = "THIEF_SWAP"
          /\ players[i].night_action.target_player_id = players[j].user_id
          /\ players[i].current_role = "WEREWOLF"
          /\ players[j].initial_role = "WEREWOLF"
          /\ players[j].current_role = "THIEF"

\* A thief who skipped.
C7_WitnessSkip ==
    \E i \in 1 .. Len(players) :
        /\ players[i].night_action.action_type = "THIEF_SKIP"
        /\ players[i].has_acted
        /\ players[i].current_role = "THIEF"

(***************************************************************************)
(* C8.  A seer inspection of a player or a thief swap whose target is the  *)
(* actor itself or an identity not in the roster returns the failure       *)
(* result and changes nothing: no current role, and not the actor's        *)
(* has_acted or night_action, so that the actor can still submit a valid   *)
(* action afterwards.                                                      *)
(***************************************************************************)
C8_BadTarget(actor_id, target_id) ==
    actor_id = target_id \/ ~InRoster(target_id)

C8_Fails ==
    \A actor_id \in Callers, target_id \in Callers :
        C8_BadTarget(actor_id, target_id) =>
            /\ process_seer_action_player_returns(actor_id, target_id) = NoRole
            /\ process_thief_action_returns(actor_id, target_id) = NoRole

C8_ChangesNothing ==
    \A actor_id \in Callers, target_id \in Callers :
        (/\ C8_BadTarget(actor_id, target_id)
         /\ \/ process_seer_action_player(actor_id, target_id)
            \/ process_thief_action(actor_id, target_id))
        => UNCHANGED game

C8_InvalidTarget ==
    [] C8_Fails /\ [][UNCHANGED vars \/ C8_ChangesNothing]_vars

\* A seer and a thief who have not acted yet, each refused itself and a
\* stranger as the target and each with a valid target left.
C8_Witness ==
    \E i, j \in 1 .. Len(players) :
        /\ players[i].initial_role = "SEER"
        /\ players[j].initial_role = "THIEF"
        /\ ~players[i].has_acted /\ players[i].night_action = NoAction
        /\ ~players[j].has_acted /\ players[j].night_action = NoAction
        /\ process_seer_action_player_returns(players[i].user_id,
                                              players[i].user_id) = NoRole
        /\ process_thief_action_returns(players[j].user_id, Stranger) = NoRole
        /\ SeerPlayerAccepted(players[i].user_id, players[j].user_id)
        /\ ThiefSwaps(players[j].user_id, players[i].user_id)

(***************************************************************************)
(* C9.  Eligibility for a night action is decided by initial_role only:    *)
(* a seer (thief) action of a player whose initial role is not Seer        *)
(* (Thief) is rejected with no change of state even when that player's     *)
(* current role has become Seer (Thief) through a swap, and a player       *)
(* whose initial role is Thief stays eligible after its current role has   *)
(* changed.                                                                *)
(***************************************************************************)
C9_Eligibility ==
    \A actor_id \in RosterIds :
        LET actor == get_player(actor_id)
        IN /\ actor.initial_role # "SEER" =>
                 /\ process_seer_action_center_returns(actor_id) = <<>>
                 /\ \A target_id \in Callers :
                       process_seer_action_player_returns(actor_id, target_id)
                           = NoRole
           /\ actor.initial_role # "THIEF" =>
                 \A target_id \in Callers \cup {NoneId} :
                     /\ process_thief_action_returns(actor_id, target_id) = NoRole
                     /\ ~ThiefSkips(actor_id, target_id)
           /\ actor.initial_role = "THIEF" =>
                 /\ ThiefSkips(actor_id, NoneId)
                 /\ \A target_id \in RosterIds \ {actor_id} :
                       process_thief_action_returns(actor_id, target_id) =
                           get_player(target_id).current_role

C9_Rejected ==
    \A i \in 1 .. Len(players) :
        /\ players[i].initial_role # "SEER" =>
              /\ process_seer_action_center(players[i].user_id)
                    => UNCHANGED game
              /\ \A target_id \in Callers :
                    process_seer_action_player(players[i].user_id, target_id)
                        => UNCHANGED game
        /\ players[i].initial_role # "THIEF" =>
              \A target_id \in Callers \cup {NoneId} :
                  process_thief_action(players[i].user_id, target_id)
                      => UNCHANGED game

C9_ThiefStaysEligible ==
    \A a \in 1 .. Len(players), b \in 1 .. Len(players) :
        (/\ a # b
         /\ players[a].initial_role = "THIEF"
         /\ players[a].current_role # "THIEF"
         /\ process_thief_action(players[a].user_id, players[b].user_id))
        => /\ players'[a].current_role = players[b].current_role
           /\ players'[b].current_role = players[a].current_role
           /\ players'[a].has_acted

C9_InitialRoleDecides ==
    [] C9_Eligibility
    /\ [][UNCHANGED vars \/ (C9_Rejected /\ C9_ThiefStaysEligible)]_vars

\* The thief swapped with a werewolf and then, holding the werewolf card,
\* with the seer: it now holds the seer card, the seer holds the werewolf
\* card the thief held at its second swap, and neither may act for the
\* card it holds.
C9_Witness ==
    \E i, j \in 1 .. Len(players) :
        /\ players[i].initial_role = "THIEF"
        /\ players[i].current_role = "SEER"
        /\ players[i].night_action.action_type = "THIEF_SWAP"
        /\ players[i].night_action.target_player_id = players[j].user_id
        /\ players[j].initial_role = "SEER"
        /\ players[j].current_role = "WEREWOLF"
        /\ process_seer_action_center_returns(players[i].user_id) = <<>>
        /\ ~ThiefSkips(players[j].user_id, NoneId)

(***************************************************************************)
(* C10.  A seer or thief night action submitted to the engine in the       *)
(* wrong phase (the phase is not Night, or get_current_night_role is not   *)
(* the role group of the action) is rejected and changes no state: no      *)
(* has_acted, night_action or current_role.                                *)
(***************************************************************************)
C10_NotTurnOf(role) == phase # "NIGHT" \/ get_current_night_role # role

C10_WrongPhaseRejected ==
    [][/\ C10_NotTurnOf("SEER") =>
             /\ \A seer_id \in Callers, target_id \in Callers :
                   process_seer_action_player(seer_id, target_id)
                       => UNCHANGED game
             /\ \A seer_id \in Callers :
                   process_seer_action_center(seer_id) => UNCHANGED game
       /\ C10_NotTurnOf("THIEF") =>
             \A thief_id \in Callers, target_id \in Callers \cup {NoneId} :
                 process_thief_action(thief_id, target_id) => UNCHANGED game
      ]_vars

(***************************************************************************)
(* C3.  The phase only moves forward in the order Waiting, Night,          *)
(* Discussion, Voting, Ended: no step of the engine or of the front end    *)
(* sets the phase to an earlier one than the current one.                  *)
(***************************************************************************)
PhaseRank(p) == CHOOSE i \in 1 .. Len(GamePhase) : GamePhase[i] = p

C3_PhaseNeverRegresses == [][PhaseRank(phase') >= PhaseRank(phase)]_vars

(***************************************************************************)
(* C11.  register_vote returns false and changes no vote whenever the      *)
(* voter is not in the roster, the target is neither in the roster nor     *)
(* the abstain sentinel, the voter is the target, or the voter has a       *)
(* recorded vote; in every other case it returns true and sets exactly     *)
(* the voter's vote_target_id to the target, changing nothing else.        *)
(***************************************************************************)
VotesOf(ps) == [i \in 1 .. Len(ps) |-> ps[i].vote_target_id]

C11_MustReject(voter_id, target_id) ==
    \/ ~InRoster(voter_id)
    \/ ~InRoster(target_id) /\ target_id # PEACE_VILLAGE
    \/ voter_id = target_id
    \/ InRoster(voter_id) /\ get_player(voter_id).vote_target_id # NoneId

C11_Step(voter_id, target_id) ==
    /\ register_vote_returns(voter_id, target_id)
           <=> ~C11_MustReject(voter_id, target_id)
    /\ register_vote(voter_id, target_id) =>
          IF C11_MustReject(voter_id, target_id)
          THEN VotesOf(players') = VotesOf(players)
          ELSE /\ players' = [players EXCEPT
                                 ![IndexOf(voter_id)].vote_target_id = target_id]
               /\ UNCHANGED <<center_cards, night_action_order,
                              night_action_index, phase, executed_player_ids,
                              winners>>

C11_RegisterVoteContract ==
    [][phase = "VOTING" =>
          \A voter_id \in Callers, target_id \in Callers \cup {PEACE_VILLAGE} :
              C11_Step(voter_id, target_id)]_vars

(***************************************************************************)
(* C12.  register_vote called by a roster member who has not voted yet,    *)
(* with the abstain sentinel as target, is accepted: it returns true (and  *)
(* the vote is then counted under the sentinel by calculate_votes).        *)
(***************************************************************************)
C12_AbstainAccepted ==
    phase = "VOTING" =>
        \A voter_id \in RosterIds :
            get_player(voter_id).vote_target_id = NoneId
                => register_vote_returns(voter_id, PEACE_VILLAGE)

(***************************************************************************)
(* C13.  A player's vote is accepted at most once, over both ways of       *)
(* voting: once a player's vote_target_id is set it never changes, and     *)
(* every later vote or skip of that player is rejected.                    *)
(***************************************************************************)
C13_LaterVoteRejected ==
    \A voter_id \in RosterIds :
        get_player(voter_id).vote_target_id # NoneId =>
            \A target_id \in Callers \cup {PEACE_VILLAGE} :
                ~register_vote_returns(voter_id, target_id)

C13_VoteStands ==
    \A i \in 1 .. Len(players) :
        players[i].vote_target_id # NoneId =>
            /\ Len(players') = Len(players)
            /\ players'[i].vote_target_id = players[i].vote_target_id
            /\ ~skip_vote(players[i].user_id)
            /\ \A target_id \in Callers \cup {PEACE_VILLAGE} :
                  register_vote(players[i].user_id, target_id)
                      => UNCHANGED game

C13_OneVotePerPlayer ==
    [] C13_LaterVoteRejected /\ [][UNCHANGED vars \/ C13_VoteStands]_vars

\* The voting is closed with one vote for a player, one for nobody, and a
\* third cast after them.
C13_Witness ==
    /\ phase = "ENDED"
    /\ player_count = 3
    /\ \E i, j \in 1 .. Len(players) :
          /\ players[i].vote_target_id = PEACE_VILLAGE
          /\ players[j].vote_target_id = players[i].user_id
    /\ ~register_vote_returns(1, 2)

(***************************************************************************)
(* C14.  In every reachable state the tally of calculate_votes has one     *)
(* entry per roster member and one for the abstain sentinel, each entry    *)
(* is the number of players whose recorded vote is that key, and the       *)
(* entries add up to the number of players who have voted.                 *)
(***************************************************************************)
VotersFor(key) ==
    {i \in 1 .. Len(players) : players[i].vote_target_id = key}

Voted == {i \in 1 .. Len(players) : players[i].vote_target_id # NoneId}

RECURSIVE SumOver(_, _)
SumOver(vote_counts, keys) ==
    IF keys = {} THEN 0
    ELSE LET key == CHOOSE k \in keys : TRUE
         IN vote_counts[key] + SumOver(vote_counts, keys \ {key})

C14_TallyCountsVotes ==
    /\ DOMAIN calculate_votes = RosterIds \cup {PEACE_VILLAGE}
    /\ \A key \in DOMAIN calculate_votes :
          calculate_votes[key] = Cardinality(VotersFor(key))
    /\ SumOver(calculate_votes, DOMAIN calculate_votes) = Cardinality(Voted)

\* Everyone has voted: two for nobody, one for a player.
C14_Witness ==
    /\ player_count = 3
    /\ all_voted
    /\ calculate_votes[PEACE_VILLAGE] = 2
    /\ \E key \in RosterIds : calculate_votes[key] = 1

(***************************************************************************)
(* C15.  determine_execution returns no identity or one: none when nobody  *)
(* has a vote, when the highest count is shared by two keys or more (the   *)
(* abstain sentinel being a key like the others), or when the sentinel     *)
(* alone has the highest count; otherwise the one roster member who alone  *)
(* has the highest count.  It never returns the sentinel nor an identity   *)
(* outside the roster.                                                     *)
(***************************************************************************)
VoteKeys == RosterIds \cup {PEACE_VILLAGE}

TopKeys ==
    {key \in VoteKeys :
        \A other \in VoteKeys :
            Cardinality(VotersFor(other)) <= Cardinality(VotersFor(key))}

C15_NobodyExecuted ==
    \/ Voted = {}
    \/ Cardinality(TopKeys) >= 2
    \/ TopKeys = {PEACE_VILLAGE}

C15_ExecutionRule ==
    /\ Len(determine_execution_returns) <= 1
    /\ \A i \in 1 .. Len(determine_execution_returns) :
          /\ determine_execution_returns[i] # PEACE_VILLAGE
          /\ InRoster(determine_execution_returns[i])
    /\ IF C15_NobodyExecuted
       THEN determine_execution_returns = <<>>
       ELSE /\ Len(determine_execution_returns) = 1
            /\ TopKeys = {determine_execution_returns[1]}

\* A two-to-one vote has been counted and its player executed, while the
\* minority vote was for nobody.
C15_Witness ==
    /\ player_count = 3
    /\ all_voted
    /\ Len(executed_player_ids) = 1
    /\ executed_player_ids = determine_execution_returns
    /\ Cardinality(VotersFor(PEACE_VILLAGE)) = 1

(***************************************************************************)
(* C16.  After every call of determine_execution, whatever calls came      *)
(* before, executed_player_ids is the list the call returned (the empty    *)
(* list on a tie or when nobody has voted).                                *)
(***************************************************************************)
C16_ExecutedIsReturned ==
    phase \in {"VOTING", "ENDED"} =>
        ExecutedAfter(calculate_votes) = determine_execution_returns

(***************************************************************************)
(* C17.  determine_winner follows the priority rules on the current roles, *)
(* in every reachable state: an executed player who is now the Tanner      *)
(* gives the Tanner alone, even with a Werewolf left unexecuted; otherwise, *)
(* with nobody executed, the Werewolves win if some player is now a        *)
(* Werewolf and the Village if none is; otherwise an executed player who   *)
(* is now a Werewolf gives the Village; otherwise the Werewolves win.  The *)
(* role a player was dealt does not count.                                  *)
(***************************************************************************)
NowHolds(user_id, role) ==
    \E i \in 1 .. Len(players) :
        players[i].user_id = user_id /\ players[i].current_role = role

ExecutedNow(role) ==
    \E k \in 1 .. Len(executed_player_ids) :
        NowHolds(executed_player_ids[k], role)

C17_Rules ==
    IF ExecutedNow("TANNER") THEN <<"TANNER">>
    ELSE IF executed_player_ids = <<>>
         THEN IF \E user_id \in RosterIds : NowHolds(user_id, "WEREWOLF")
              THEN <<"WEREWOLF">>
              ELSE <<"VILLAGE">>
    ELSE IF ExecutedNow("WEREWOLF") THEN <<"VILLAGE">>
    ELSE <<"WEREWOLF">>

C17_PriorityRules == determine_winner_returns = C17_Rules

\* A player dealt the Thief took the Werewolf card and was executed: the
\* Village has won although no player dealt a Werewolf was executed.
C17_Witness ==
    /\ phase = "ENDED"
    /\ winners = <<"VILLAGE">>
    /\ \E i \in 1 .. Len(players) :
          /\ executed_player_ids = <<players[i].user_id>>
          /\ players[i].initial_role = "THIEF"
          /\ players[i].current_role = "WEREWOLF"

(***************************************************************************)
(* C18.  determine_winner is total and single-valued on every reachable    *)
(* state: it returns exactly one team, one of Tanner, Village and          *)
(* Werewolf, and the winners field is the returned value after the call.   *)
(***************************************************************************)
C18_OneTeam ==
    /\ Len(determine_winner_returns) = 1
    /\ determine_winner_returns[1] \in Team

C18_Recorded == winners' # winners => winners' = determine_winner_returns

C18_TotalSingleValued ==
    [] C18_OneTeam /\ [][UNCHANGED vars \/ C18_Recorded]_vars

\* The winners were asked for before the execution was decided and again
\* after it, and the field holds the later answer.
C18_Witness ==
    /\ phase = "ENDED"
    /\ executed_player_ids # <<>>
    /\ winners = determine_winner_returns
    /\ winners # WinnersOf(players, <<>>)

(***************************************************************************)
(* C19.  Whenever determine_winner returns the Werewolves, a Werewolf      *)
(* existed and escaped: some player who was not executed has the current   *)
(* role Werewolf, also when both Werewolf cards lie in the center and a    *)
(* player was executed.                                                    *)
(***************************************************************************)
C19_WerewolfEscaped ==
    (phase = "ENDED" /\ determine_winner_returns = <<"WEREWOLF">>) =>
        \E i \in 1 .. Len(players) :
            /\ players[i].current_role = "WEREWOLF"
            /\ players[i].user_id \notin SeqRange(executed_player_ids)

(***************************************************************************)
(* C20.  determine_winner is a function of the executed identities and of  *)
(* the players' current roles alone: a session with the same roster, the   *)
(* same current roles and the same executed identities gets the same       *)
(* winners whatever its dealt roles, recorded votes and night records; and *)
(* the call changes no player, center card, vote or executed identity.     *)
(***************************************************************************)
\* The rosters that agree with the session on identities and current roles
\* and on nothing else: every player fresh but for the current role, then
\* also dealt the card it holds now.
Forgotten ==
    [i \in 1 .. Len(players) |->
        [NewPlayer(players[i].user_id) EXCEPT
            !.current_role = players[i].current_role]]

DealtAsHeld ==
    [i \in 1 .. Len(players) |->
        [Forgotten[i] EXCEPT !.initial_role = players[i].current_role]]

SameCurrentRoles == {Forgotten, DealtAsHeld}

C20_SameWinners ==
    \A ps \in SameCurrentRoles :
        WinnersOf(ps, executed_player_ids) = determine_winner_returns

C20_OnlyWinners ==
    winners' # winners =>
        UNCHANGED <<players, center_cards, night_action_order,
                    night_action_index, phase, executed_player_ids>>

C20_PureFunction ==
    [] C20_SameWinners /\ [][UNCHANGED vars \/ C20_OnlyWinners]_vars

\* The Thief swapped with a Werewolf and the player who was dealt that
\* Werewolf card was executed: by the dealt roles the Village would have
\* won, by the current ones the Werewolves have.
C20_Witness ==
    /\ phase = "ENDED"
    /\ winners = <<"WEREWOLF">>
    /\ \E i \in 1 .. Len(players) :
          /\ executed_player_ids = <<players[i].user_id>>
          /\ players[i].initial_role = "WEREWOLF"
          /\ players[i].current_role = "THIEF"

(***************************************************************************)
(* C21.  No player's night action takes effect more than once: once a      *)
(* seer or a thief has has_acted set, a further action submitted by that   *)
(* player changes no state, so a thief swaps at most once and a recorded   *)
(* night_action is never overwritten.                                      *)
(***************************************************************************)
C21_FurtherActionIgnored(user_id) ==
    /\ \A target_id \in Callers :
          process_seer_action_player(user_id, target_id) => UNCHANGED game
    /\ process_seer_action_center(user_id) => UNCHANGED game
    /\ \A target_id \in Callers \cup {NoneId} :
          process_thief_action(user_id, target_id) => UNCHANGED game

C21_ActedOnce ==
    \A i \in 1 .. Len(players) :
        (players[i].has_acted /\ players[i].initial_role \in {"SEER", "THIEF"})
            => /\ C21_FurtherActionIgnored(players[i].user_id)
               /\ Len(players') = Len(players)
               /\ players'[i].night_action = players[i].night_action

C21_NightActionOnce == [][UNCHANGED vars \/ C21_ActedOnce]_vars

(***************************************************************************)
(* C22.  In every state after the deal no player's initial_role has        *)
(* changed since the deal, and a player whose current_role differs from    *)
(* its initial_role took part in a thief swap: it was dealt the Thief and  *)
(* swapped, or it is the target of such a swap.                            *)
(***************************************************************************)
C22_SwapParticipant(i) ==
    \E j \in 1 .. Len(players) :
        /\ players[j].initial_role = "THIEF"
        /\ players[j].night_action.action_type = "THIEF_SWAP"
        /\ \/ i = j
           \/ players[j].night_action.target_player_id = players[i].user_id

C22_OnlySwapsDiffer ==
    phase # "WAITING" =>
        \A i \in 1 .. Len(players) :
            players[i].current_role # players[i].initial_role
                => C22_SwapParticipant(i)

C22_InitialRoleKept ==
    phase # "WAITING" => InitialRolesOf(players') = InitialRolesOf(players)

NightRunPcs == {"werewolves", "werewolves_sent", "seers", "thieves"}

NightRuns == {task \in Suspended : task.pc \in NightRunPcs}

C23_OneNightRun ==
    /\ Cardinality(NightRuns) <= 1
    /\ \A task \in NightRuns : CopiesIn(task, tasks) = 1

C23_DealsWaitingSession ==
    \A task \in Suspended :
        (begin_deal(task) /\ ~setup_game_raises(task.role_list))
            => phase = "WAITING"

C23_DealtOnce ==
    [][UNCHANGED vars \/ (C23_DealsWaitingSession /\ C23_OneNightRun)]_vars

(***************************************************************************)
(* C24.  When the front end calls setup_game the deck it passes has        *)
(* roster size + 2 cards, whatever joins and leaves were handled around    *)
(* the begin command, also while begin was suspended between choosing the  *)
(* deck and dealing: the deal of begin never fails on the deck size.       *)
(***************************************************************************)
C24_DeckFitsRoster ==
    \A task \in Suspended :
        task.pc = "begin_send" => Len(task.role_list) = player_count + 2

(***************************************************************************)
(* C26.  In every run of the front end's night phase the role groups       *)
(* resolve in the order Werewolf, Seer, Thief: the werewolf reveal is      *)
(* recorded before any seer action and no thief swap is applied until      *)
(* every seer has acted or been timed out, so when a seer inspection       *)
(* resolves every player's current_role still equals its initial_role.     *)
(***************************************************************************)
SeerRecords == {"SEER_PLAYER", "SEER_CENTER"}

\* The step records the inspection of seer i.
SeerResolves(i) ==
    /\ players[i].initial_role = "SEER"
    /\ Len(players') = Len(players)
    /\ players'[i].night_action # players[i].night_action
    /\ players'[i].night_action.action_type \in SeerRecords

RevealRecorded ==
    \A j \in 1 .. Len(players) :
        players[j].initial_role = "WEREWOLF"
            => /\ players[j].has_acted
               /\ players[j].night_action.action_type = "WEREWOLF_CHECK"

SeersDone ==
    \A j \in 1 .. Len(players) :
        players[j].initial_role = "SEER" => players[j].has_acted

C26_SeerStep ==
    \A i \in 1 .. Len(players) :
        SeerResolves(i)
            => /\ get_current_night_role = "SEER"
               /\ RevealRecorded
               /\ CurrentRolesOf(players) = InitialRolesOf(players)

C26_ThiefStep ==
    (phase = "NIGHT" /\ CurrentRolesOf(players') # CurrentRolesOf(players))
        => /\ get_current_night_role = "THIEF"
           /\ RevealRecorded
           /\ SeersDone

NightRoles == {"WEREWOLF", "SEER", "THIEF"}

C27_NightClosed ==
    phase \in {"DISCUSSION", "VOTING", "ENDED"} =>
        /\ night_action_index = Len(NIGHT_ACTION_ORDER)
        /\ get_current_night_role = NoRole
        /\ \A i \in 1 .. Len(players) :
              players[i].initial_role \in NightRoles => players[i].has_acted
        /\ (\A i \in 1 .. Len(players) :
                players[i].night_action.action_type # "THIEF_SWAP")
              => CurrentRolesOf(players) = InitialRolesOf(players)

\* The step marks player i without an action of its own: the timeout.
TimesOut(i) ==
    /\ players[i].initial_role \in {"SEER", "THIEF"}
    /\ ~players[i].has_acted
    /\ Len(players') = Len(players)
    /\ players'[i].has_acted
    /\ players'[i].night_action.action_type \in {"NONE", "THIEF_SKIP"}

C27_TimeoutIsNoOp ==
    \A i \in 1 .. Len(players) :
        TimesOut(i) => CurrentRolesOf(players') = CurrentRolesOf(players)

C30_NightTerminates ==
    /\ (phase = "NIGHT") ~> (phase = "DISCUSSION")
    /\ (phase = "DISCUSSION") ~> (phase = "VOTING")

\* The voting is open after a night in which the Seer card lay in the
\* center and the player dealt the Thief was timed out.
C30_Witness ==
    /\ phase = "VOTING"
    /\ "SEER" \in SeqRange(center_cards)
    /\ \E i \in 1 .. Len(players) :
          /\ players[i].initial_role = "THIEF"
          /\ players[i].night_action.action_type = "THIEF_SKIP"

(***************************************************************************)
(* C28.  Execution resolution and win evaluation run at most once per      *)
(* game: when the last two votes are handled concurrently and both         *)
(* handlers find every player has voted after their reply, one run of      *)
(* end_voting_phase decides the execution and the winners and announces    *)
(* them, and the other returns at once.                                    *)
(***************************************************************************)
ResultRuns == {task \in Suspended : task.pc \in ResultPcs}

C28_OneAtATime ==
    /\ Cardinality(ResultRuns) <= 1
    /\ \A task \in ResultRuns : CopiesIn(task, tasks) = 1

\* No run of the results starts on an ended session, and an ended session
\* stays ended.
C28_NoneAfterEnd ==
    phase = "ENDED" =>
        /\ phase' = "ENDED"
        /\ \A task \in BagToSet(tasks') :
              task.pc = "results" => CopiesIn(task, tasks') <= CopiesIn(task, tasks)

C29_NewGameStaysRegistered == [][games = "NEWER" => games' = "NEWER"]_vars

(***************************************************************************)
(* C25.  Sessions are independent: one direct message is applied to at     *)
(* most one session, also while two sessions are in their night and the    *)
(* sender is a Seer or Thief in both; no step changes the state of both    *)
(* sessions.                                                               *)
(***************************************************************************)
C25_OneSessionPerMessage == [][game' = game \/ peer' = peer]_vars

(***************************************************************************)
(* C31.  Execution is resolved only after all votes are in: whenever the   *)
(* phase is Ended every player of the roster has a vote_target_id, and     *)
(* the phase does not become Ended while some player has not voted.        *)
(***************************************************************************)
EveryoneVoted(ps) == \A i \in 1 .. Len(ps) : ps[i].vote_target_id # NoneId

C31_EndedWithAllVotes == phase = "ENDED" => EveryoneVoted(players)

C31_EndsOnLastVote ==
    phase # "ENDED" /\ phase' = "ENDED" =>
        EveryoneVoted(players) /\ EveryoneVoted(players')

C31_AllVotesBeforeEnd ==
    [] C31_EndedWithAllVotes /\ [][UNCHANGED vars \/ C31_EndsOnLastVote]_vars

\* The game has ended on the votes of a full roster, one for a player and one
\* for the peaceful village among them.
C31_Witness ==
    /\ phase = "ENDED"
    /\ Len(players) >= MIN_PLAYERS
    /\ \E i \in 1 .. Len(players) : players[i].vote_target_id = PEACE_VILLAGE
    /\ \E i \in 1 .. Len(players) : players[i].vote_target_id \in UserIds

(***************************************************************************)
(* C32.  Votes are recorded only during the Voting phase: in every         *)
(* reachable state a player has a vote_target_id only if the phase is      *)
(* Voting or Ended.                                                        *)
(***************************************************************************)
C32_VotesOnlyInVoting ==
    \A i \in 1 .. Len(players) :
        players[i].vote_target_id # NoneId => phase \in {"VOTING", "ENDED"}

(***************************************************************************)
(* C33.  Cards are conserved for the whole game: in every state after the  *)
(* deal, through werewolf reveals, seer inspections, thief swaps, skips,   *)
(* timeouts, votes and resolution, the current roles of the players        *)
(* together with the two center cards are the dealt deck as a multiset,    *)
(* and the center cards never change.                                      *)
(***************************************************************************)
C33_DeckInPlay ==
    phase # "WAITING" =>
        /\ Len(center_cards) = 2
        /\ BagOfSeq(CurrentRolesOf(players) \o center_cards)
              = BagOfSeq(ROLE_CONFIG(player_count))

C33_CenterKept == phase # "WAITING" => center_cards' = center_cards

====
